---- MODULE Spec2Model ----
(***************************************************************************)
(* A model of homework.py: the polling loop main() of the homework-status  *)
(* bot and the functions it calls.  Python values are tagged records, and  *)
(* every text (an f-string's result) is the sequence of its pieces, so     *)
(* that two texts are equal exactly when the strings are.  The Cyrillic    *)
(* literals of the source are transliterated: the module is ASCII.  The    *)
(* characters of a string are read with SubSeq(s, i, i).                   *)
(***************************************************************************)
EXTENDS Integers, Sequences, FiniteSets, TLC

(***************************************************************************)
(* Python values.                                                          *)
(***************************************************************************)
PyNone == [t |-> "NoneType"]

PyInt(n) == [t |-> "int", v |-> n]

PyStr(s) == [t |-> "str", v |-> s]

PyList(q) == [t |-> "list", v |-> q]

\* A dict keeps the order in which its keys were inserted: items is the
\* sequence of <<key, value>> pairs as a literal or a JSON object lists them.
\* A key given twice keeps its first place and its last value.  k is the
\* sequence of the keys, v the mapping.  (Equality of two dicts is not used
\* by the program and is not modelled: the records also compare the order.)
\* The keys of the first n items, each at its first place.
RECURSIVE KeysUpTo(_, _)
KeysUpTo(items, n) ==
  IF n = 0 THEN <<>>
  ELSE LET front == KeysUpTo(items, n - 1)
           key == items[n][1]
       IN IF \E i \in 1..Len(front) : front[i] = key THEN front
                                                     ELSE Append(front, key)

DictKeys(items) == KeysUpTo(items, Len(items))

DictValue(items, key) ==
  LET at == {i \in 1..Len(items) : items[i][1] = key}
      j == CHOOSE i \in at : \A h \in at : h <= i
  IN items[j][2]

PyDict(items) ==
  [t |-> "dict",
   k |-> DictKeys(items),
   v |-> [key \in {items[i][1] : i \in 1..Len(items)} |-> DictValue(items, key)]]

EmptyItems == <<>>

\* bool(x): None, 0, '', [] and {} are falsy.
Truthy(x) == CASE x.t = "NoneType" -> FALSE
               [] x.t = "int" -> x.v # 0
               [] x.t = "str" -> x.v # ""
               [] x.t = "list" -> x.v # <<>>
               [] x.t = "dict" -> x.k # <<>>

\* d.get(key): None when the key is absent.  Only dicts reach it in main();
\* of the placeholder of an unbound local it is None.
Get(d, key) == IF d.t = "dict" /\ key \in DOMAIN d.v THEN d.v[key] ELSE PyNone

\* len() of a dict or a list.
PyLen(x) == IF x.t = "dict" THEN Len(x.k) ELSE Len(x.v)

Digit(d) == CASE d = 0 -> "0" [] d = 1 -> "1" [] d = 2 -> "2" [] d = 3 -> "3"
              [] d = 4 -> "4" [] d = 5 -> "5" [] d = 6 -> "6" [] d = 7 -> "7"
              [] d = 8 -> "8" [] d = 9 -> "9"

RECURSIVE NatToStr(_)
NatToStr(n) == IF n < 10 THEN Digit(n) ELSE NatToStr(n \div 10) \o Digit(n % 10)

\* str() of an int, as an f-string formats it.
IntToStr(n) == IF n < 0 THEN "-" \o NatToStr(0 - n) ELSE NatToStr(n)

\* The string s holds the character c.
HasChar(s, c) == \E i \in 1..Len(s) : SubSeq(s, i, i) = c

\* The quote repr() puts around a string: the double quote if the string
\* holds an apostrophe and no double quote, the apostrophe otherwise.
QuoteFor(hasApostrophe, hasDoubleQuote) ==
  IF hasApostrophe /\ ~hasDoubleQuote THEN "\"" ELSE "'"

\* What repr() puts for the character c inside the quotes q.
EscapeChar(c, q) == CASE c = "\\" -> "\\\\"
                      [] c = q -> "\\" \o q
                      [] c = "\n" -> "\\n"
                      [] c = "\r" -> "\\r"
                      [] c = "\t" -> "\\t"
                      [] c = "\f" -> "\\x0c"
                      [] OTHER -> c

\* The characters of s from the i-th on, as repr() puts them.
RECURSIVE EscapeFrom(_, _, _)
EscapeFrom(s, i, q) == IF i > Len(s) THEN ""
                       ELSE EscapeChar(SubSeq(s, i, i), q) \o EscapeFrom(s, i + 1, q)

\* A string without a character that repr() escapes stays as it is.
Escape(s, q) ==
  IF \A i \in 1..Len(s) : EscapeChar(SubSeq(s, i, i), q) = SubSeq(s, i, i)
    THEN s
    ELSE EscapeFrom(s, 1, q)

\* repr() of a str.
ReprStr(s) == LET q == QuoteFor(HasChar(s, "'"), HasChar(s, "\""))
              IN q \o Escape(s, q) \o q

\* repr() of a str that is given as the sequence of its pieces.
ReprText(text) ==
  LET q == QuoteFor(\E i \in 1..Len(text) : HasChar(text[i], "'"),
                    \E i \in 1..Len(text) : HasChar(text[i], "\""))
  IN <<q>> \o [i \in 1..Len(text) |-> Escape(text[i], q)] \o <<q>>

\* repr() of a value; of a list and a dict it is the repr of the elements
\* between brackets, in their order.
RECURSIVE Repr(_)
RECURSIVE ReprElements(_)
RECURSIVE ReprItems(_, _)
ReprElements(q) ==
  IF q = <<>> THEN ""
  ELSE IF Len(q) = 1 THEN Repr(q[1])
  ELSE Repr(q[1]) \o ", " \o ReprElements(Tail(q))

ReprItems(keys, f) ==
  IF keys = <<>> THEN ""
  ELSE LET item == ReprStr(keys[1]) \o ": " \o Repr(f[keys[1]])
       IN IF Len(keys) = 1 THEN item
                           ELSE item \o ", " \o ReprItems(Tail(keys), f)

Repr(x) == CASE x.t = "NoneType" -> "None"
             [] x.t = "int" -> IntToStr(x.v)
             [] x.t = "str" -> ReprStr(x.v)
             [] x.t = "list" -> "[" \o ReprElements(x.v) \o "]"
             [] x.t = "dict" -> "{" \o ReprItems(x.k, x.v) \o "}"

\* What an f-string puts for {x}: str(x), which is x itself for a str and
\* repr(x) for the other values.
Format(x) == IF x.t = "str" THEN x.v ELSE Repr(x)

\* What an f-string puts for {type(x)}.
TypeRepr(x) == "<class '" \o x.t \o "'>"

(***************************************************************************)
(* Exceptions: a class name and the text of the argument.  str() of a      *)
(* KeyError is the repr of its argument, of the others the argument.       *)
(***************************************************************************)
Exc(cls, msg) == [cls |-> cls, msg |-> msg]

NoError == Exc("none", <<>>)

\* exceptions.DictIsEmptyError: an exception class of the repository's own.
DictIsEmptyErrorBase == "Exception"

\* The base class of each exception class the program can meet; the classes
\* of the requests library derive from OSError, not from the builtin
\* ConnectionError that main() names.
Base(cls) == CASE cls = "ConnectionError" -> "OSError"
               [] cls = "requests.ConnectionError" -> "requests.RequestException"
               [] cls = "requests.Timeout" -> "requests.RequestException"
               [] cls = "requests.RequestException" -> "OSError"
               [] cls = "requests.JSONDecodeError" -> "ValueError"
               [] cls = "OSError" -> "Exception"
               [] cls = "KeyError" -> "LookupError"
               [] cls = "LookupError" -> "Exception"
               [] cls = "TypeError" -> "Exception"
               [] cls = "ValueError" -> "Exception"
               [] cls = "AttributeError" -> "Exception"
               [] cls = "DictIsEmptyError" -> DictIsEmptyErrorBase
               [] cls = "telegram.TelegramError" -> "Exception"
               [] cls = "telegram.InvalidToken" -> "telegram.TelegramError"
               [] OTHER -> "object"

RECURSIVE IsSubclass(_, _)
IsSubclass(cls, of) == \/ cls = of
                       \/ /\ cls # "object"
                          /\ IsSubclass(Base(cls), of)

\* An except clause naming the classes `handled` catches the exception.
Catches(handled, e) == \E h \in handled : IsSubclass(e.cls, h)

StrOfError(e) == IF IsSubclass(e.cls, "KeyError") THEN ReprText(e.msg)
                                                  ELSE e.msg

(***************************************************************************)
(* Module constants of homework.py.                                        *)
(***************************************************************************)
RETRY_TIME == 600

ENDPOINT == "https://practicum.yandex.ru/api/user_api/homework_statuses/"

HTTP_OK == 200

\* The look-back of the first poll window: int(time.time())-600000.
LOOKBACK == 600000

HOMEWORK_STATUSES ==
  [approved |-> "Rabota proverena: revyueru vsyo ponravilos. Ura!",
   reviewing |-> "Rabota vzyata na proverku revyuerom.",
   rejected |-> "Rabota proverena: u revyuera est zamechaniya."]

\* A function's outcome: the value it returns or the exception it raises.
Return(x) == [ok |-> TRUE, value |-> x, error |-> NoError]

Raise(e) == [ok |-> FALSE, value |-> PyNone, error |-> e]

(***************************************************************************)
(* get_api_answer(current_timestamp), with the wall clock at `clock` and   *)
(* `http` what requests.get does: it raises an exception of the requests   *)
(* library, or returns a response with a status code and a body.           *)
(***************************************************************************)
FromDate(current_timestamp, clock) ==
  IF Truthy(current_timestamp) THEN current_timestamp ELSE PyInt(clock)

\* The characters quote_plus leaves as they are.
Unreserved == "ABCDEFGHIJKLMNOPQRSTUVWXYZabcdefghijklmnopqrstuvwxyz0123456789_.-~"

\* The ASCII characters from the space (code 32) to the underscore (code
\* 95), and from the letter a (code 97) to the tilde (code 126).
UpToUnderscore ==
  " !\"#$%&'()*+,-./0123456789:;<=>?@ABCDEFGHIJKLMNOPQRSTUVWXYZ[\\]^_"

FromSmallA == "abcdefghijklmnopqrstuvwxyz{|}~"

\* Where the character c stands in the string s.
IndexOf(s, c) == CHOOSE i \in 1..Len(s) : SubSeq(s, i, i) = c

\* The code of an ASCII character.
Ord(c) == CASE c = "\t" -> 9
            [] c = "\n" -> 10
            [] c = "\f" -> 12
            [] c = "\r" -> 13
            [] HasChar(UpToUnderscore, c) -> 31 + IndexOf(UpToUnderscore, c)
            [] HasChar(FromSmallA, c) -> 96 + IndexOf(FromSmallA, c)

HexDigit(d) == IF d < 10 THEN Digit(d) ELSE SubSeq("ABCDEF", d - 9, d - 9)

\* What quote_plus puts for the character c: the character, a plus sign for
\* a space, or a percent sign and the two hexadecimal digits of its code.
QuoteChar(c) ==
  IF HasChar(Unreserved, c) THEN c
  ELSE IF c = " " THEN "+"
  ELSE "%" \o HexDigit(Ord(c) \div 16) \o HexDigit(Ord(c) % 16)

\* The characters of s from the i-th on, as quote_plus puts them.
RECURSIVE QuoteFrom(_, _)
QuoteFrom(s, i) == IF i > Len(s) THEN ""
                   ELSE QuoteChar(SubSeq(s, i, i)) \o QuoteFrom(s, i + 1)

QuotePlus(s) ==
  IF \A i \in 1..Len(s) : HasChar(Unreserved, SubSeq(s, i, i))
    THEN s
    ELSE QuoteFrom(s, 1)

\* What iterating over x gives: the elements of a list, the keys of a dict.
Iterate(x) == IF x.t = "list" THEN x.v
              ELSE [i \in 1..Len(x.k) |-> PyStr(x.k[i])]

\* The values requests pairs with the key from_date: the value itself, or,
\* of a list or a dict, what iterating over it gives, None left out.
ParamValues(vs) ==
  IF vs.t \in {"list", "dict"}
    THEN SelectSeq(Iterate(vs), LAMBDA v : v # PyNone)
    ELSE <<vs>>

\* The strings urlencode(doseq=True) writes for one of these values: the
\* str() of each element of a list or a dict, else the str() of the value.
ParamStrings(v) ==
  IF v.t \in {"list", "dict"}
    THEN [i \in 1..PyLen(v) |-> Format(Iterate(v)[i])]
    ELSE <<Format(v)>>

\* The strings of the values from the i-th on.
RECURSIVE StringsFrom(_, _)
StringsFrom(values, i) ==
  IF i > Len(values) THEN <<>>
  ELSE ParamStrings(values[i]) \o StringsFrom(values, i + 1)

\* from_date=... of each string from the i-th on, with & between them.
RECURSIVE PairsFrom(_, _)
PairsFrom(strings, i) ==
  IF i > Len(strings) THEN ""
  ELSE (IF i > 1 THEN "&" ELSE "") \o "from_date=" \o QuotePlus(strings[i])
         \o PairsFrom(strings, i + 1)

\* The query string requests makes of params = {'from_date': timestamp}.
Query(timestamp) == PairsFrom(StringsFrom(ParamValues(timestamp), 1), 1)

\* response.url: the endpoint, and the query string after a question mark
\* when there is one.
Url(timestamp) ==
  IF Query(timestamp) = "" THEN <<ENDPOINT>>
  ELSE <<ENDPOINT, "?", Query(timestamp)>>

get_api_answer(current_timestamp, clock, http) ==
  LET timestamp == FromDate(current_timestamp, clock) IN
  IF http.kind = "raise"
    THEN Raise(Exc(http.cls, <<"requests: ", http.cls>>))
  ELSE IF http.status_code # HTTP_OK
    THEN Raise(Exc("ConnectionError",
                   <<"Endpoint ">> \o Url(timestamp)
                     \o <<" nedostupen. ", "Kod otveta API: ",
                          IntToStr(http.status_code)>>))
  ELSE IF ~http.decodes
    THEN Raise(Exc("requests.JSONDecodeError", <<"Expecting value">>))
  ELSE Return(http.json)

(***************************************************************************)
(* check_response(response).                                               *)
(***************************************************************************)
check_response_key_first(response) ==
  IF response.t # "dict"
    THEN Raise(Exc("TypeError",
                   <<"Nevernyj tip dannyh otveta API Praktikuma. Ozhidalsya ",
                     "dict, poluchen ", TypeRepr(response)>>))
  ELSE IF "homeworks" \notin DOMAIN response.v
    THEN Raise(Exc("KeyError", <<"Klyucha homeworks net v otvete API">>))
  ELSE IF PyLen(response) < 1
    THEN Raise(Exc("DictIsEmptyError", <<"Slovar otveta API pust">>))
  ELSE IF response.v["homeworks"].t # "list"
    THEN Raise(Exc("TypeError", <<"homeworks ne yavlyaetsya spiskom">>))
  ELSE Return(response.v["homeworks"])

check_response(response) ==
  IF response.t # "dict"
    THEN Raise(Exc("TypeError",
                   <<"Nevernyj tip dannyh otveta API Praktikuma. Ozhidalsya ",
                     "dict, poluchen ", TypeRepr(response)>>))
  ELSE IF PyLen(response) < 1
    THEN Raise(Exc("DictIsEmptyError", <<"Slovar otveta API pust">>))
  ELSE IF "homeworks" \notin DOMAIN response.v
    THEN Raise(Exc("KeyError", <<"Klyucha homeworks net v otvete API">>))
  ELSE IF response.v["homeworks"].t # "list"
    THEN Raise(Exc("TypeError", <<"homeworks ne yavlyaetsya spiskom">>))
  ELSE Return(response.v["homeworks"])

(***************************************************************************)
(* parse_status(homework).  A homework that is no dict has no get(); the   *)
(* membership test hashes the status, and a list or a dict has no hash.    *)
(***************************************************************************)
Hashable(x) == x.t \notin {"list", "dict"}

parse_status(homework) ==
  IF homework.t # "dict"
    THEN Raise(Exc("AttributeError",
                   <<"'", homework.t, "' object has no attribute 'get'">>))
  ELSE
    LET homework_name == Get(homework, "homework_name")
        homework_status == Get(homework, "status")
        reviewer_comment == Get(homework, "reviewer_comment")
    IN IF ~Hashable(homework_status)
         THEN Raise(Exc("TypeError",
                        <<"unhashable type: '", homework_status.t, "'">>))
       ELSE IF ~(homework_status.t = "str"
                 /\ homework_status.v \in DOMAIN HOMEWORK_STATUSES)
         THEN Raise(Exc("KeyError",
                        <<"Nevernyj status raboty: ", Format(homework_status)>>))
         ELSE LET verdict == HOMEWORK_STATUSES[homework_status.v]
              IN Return(<<"Izmenilsya status proverki raboty \"",
                          Format(homework_name), "\". ", verdict,
                          " Kommentarij revyuvera: ",
                          Format(reviewer_comment), ".">>)

(***************************************************************************)
(* check_tokens(): every token is checked against None only.               *)
(***************************************************************************)
check_tokens(tokens) == \A i \in 1..Len(tokens) : tokens[i] # PyNone

(***************************************************************************)
(* telegram.Bot(token=TELEGRAM_TOKEN): the constructor checks the token.   *)
(* Up to release 13 of the library it iterates over the token (a TypeError *)
(* for None) and raises InvalidToken unless the token has no white space   *)
(* and starts with three or more digits and a colon; from release 20 on it *)
(* raises InvalidToken for None and the empty string and accepts the rest. *)
(* The release in use is not fixed by the source: where the releases       *)
(* differ, either outcome is possible.                                     *)
(***************************************************************************)
IsSpace(c) == c \in {" ", "\t", "\n", "\r", "\f"}

IsDigit(c) == c \in {"0", "1", "2", "3", "4", "5", "6", "7", "8", "9"}

\* The place of the first colon of s, or 0.
ColonAt(s) ==
  LET at == {i \in 1..Len(s) : SubSeq(s, i, i) = ":"}
  IN IF at = {} THEN 0 ELSE CHOOSE i \in at : \A j \in at : i <= j

\* Bot._validate_token of the releases up to 13, for a str.
WellFormedToken(s) ==
  /\ \A i \in 1..Len(s) : ~IsSpace(SubSeq(s, i, i))
  /\ ColonAt(s) >= 4
  /\ \A i \in 1..(ColonAt(s) - 1) : IsDigit(SubSeq(s, i, i))

InvalidToken == Exc("telegram.InvalidToken", <<"Invalid token">>)

telegram_Bot(token) ==
  IF token = PyNone
    THEN {Raise(Exc("TypeError", <<"'NoneType' object is not iterable">>)),
          Raise(InvalidToken)}
  ELSE IF token.v = "" THEN {Raise(InvalidToken)}
  ELSE IF WellFormedToken(token.v) THEN {Return(PyNone)}
  ELSE {Return(PyNone), Raise(InvalidToken)}

(***************************************************************************)
(* send_message(bot, message): the delivery succeeds or fails; a failure   *)
(* is logged and swallowed.  `note` is the call as the channel sees it,    *)
(* `log` the line send_message logs.                                       *)
(***************************************************************************)
\* What bot.send_message raises when the delivery fails.
TelegramError == Exc("telegram.TelegramError", <<"telegram_error">>)

send_message_unguarded(kind, message, delivered) ==
  [note |-> [kind |-> kind, text |-> message, delivered |-> delivered],
   escapes |-> ~delivered,
   log |-> <<"info", <<"Soobshchenie uspeshno otpravleno: \"">>
                       \o message \o <<"\"">> >>]

send_message(kind, message, delivered) ==
  [note |-> [kind |-> kind, text |-> message, delivered |-> delivered],
   escapes |-> ~delivered /\ ~Catches({"Exception"}, TelegramError),
   log |-> IF delivered
             THEN <<"info", <<"Soobshchenie uspeshno otpravleno: \"">>
                              \o message \o <<"\"">> >>
             ELSE <<"error", <<"Sboj v rabote programmy: Otpravka soobshcheniya",
                               " v chat neudalas. ">> \o TelegramError.msg >>]

(***************************************************************************)
(* error_log_and_message(bot, error, cache_message) up to its sleep: the   *)
(* diagnostic, whether it is sent, and the cache_message it has then and   *)
(* returns after the sleep.                                                *)
(***************************************************************************)
Diagnostic(error) == <<"Sboj v rabote programmy: ">> \o StrOfError(error)

AlwaysNew(cache, message) == TRUE

IsNewError(cache, message) == cache # message

\* As error_log_and_message, with its result not kept as the cache.
error_log_and_message_dropped(error, cache, delivered) ==
  LET message == Diagnostic(error)
      sends == IsNewError(cache, message)
      sm == send_message("error", message, delivered)
  IN [message |-> message,
      sends |-> sends,
      escapes |-> sends /\ sm.escapes,
      notes |-> IF sends THEN <<sm.note>> ELSE <<>>,
      logs |-> <<  <<"error", message>> >> \o (IF sends THEN <<sm.log>> ELSE <<>>),
      cache_message |-> cache]

\* As error_log_and_message, with the cache set only once the diagnostic
\* has been delivered.
error_log_and_message_on_delivery(error, cache, delivered) ==
  LET message == Diagnostic(error)
      sends == IsNewError(cache, message)
      sm == send_message("error", message, delivered)
  IN [message |-> message,
      sends |-> sends,
      escapes |-> sends /\ sm.escapes,
      notes |-> IF sends THEN <<sm.note>> ELSE <<>>,
      logs |-> <<  <<"error", message>> >> \o (IF sends THEN <<sm.log>> ELSE <<>>),
      cache_message |-> IF sends /\ delivered THEN message ELSE cache]

error_log_and_message(error, cache, delivered) ==
  LET message == Diagnostic(error)
      sends == IsNewError(cache, message)
      sm == send_message("error", message, delivered)
  IN [message |-> message,
      sends |-> sends,
      escapes |-> sends /\ sm.escapes,
      notes |-> IF sends THEN <<sm.note>> ELSE <<>>,
      logs |-> <<  <<"error", message>> >> \o (IF sends THEN <<sm.log>> ELSE <<>>),
      cache_message |-> IF sends /\ ~sm.escapes THEN message ELSE cache]

(***************************************************************************)
(* The inputs of a run: the environment's tokens, what requests.get does,  *)
(* and the payloads the API answers with.                                  *)
(***************************************************************************)
MaxCycles == 3

StartTimes == {1700000600}

ServerDates == {1700000000, 1700000100}

\* <<PRACTICUM_TOKEN, TELEGRAM_TOKEN, TELEGRAM_CHAT_ID>>: all set, one of them
\* unset, or the messaging token or the chat id set to the empty string.
AllSet == <<PyStr("AQAAAAA"), PyStr("5551234567:AAE"), PyStr("4242")>>

Environments ==
  {AllSet,
   [AllSet EXCEPT ![2] = PyStr("")],
   [AllSet EXCEPT ![3] = PyStr("")]}
    \cup {[AllSet EXCEPT ![j] = PyNone] : j \in 1..3}

Approved == PyDict(<< <<"homework_name", PyStr("diplom1")>>,
                      <<"status", PyStr("approved")>> >>)

Rejected == PyDict(<< <<"homework_name", PyStr("diplom2")>>,
                      <<"status", PyStr("rejected")>>,
                      <<"reviewer_comment", PyStr("fix the tests")>> >>)

InReview == PyDict(<< <<"homework_name", PyStr("diplom3")>>,
                      <<"status", PyStr("in_review")>> >>)

NoStatus == PyDict(<< <<"homework_name", PyStr("diplom4")>> >>)

NotAMapping == PyStr("diplom5")

\* A record whose status is a JSON array.
ListStatus == PyDict(<< <<"homework_name", PyStr("diplom6")>>,
                        <<"status", PyList(<<PyStr("approved")>>)>> >>)

HomeworkLists == {<<>>, <<Approved>>, <<InReview>>, <<NoStatus>>, <<NotAMapping>>,
                  <<Rejected, InReview>>, <<InReview, Approved>>}

\* Answers that check_response accepts: without current_date, with the
\* later of the server's dates (two of them also with the earlier), one
\* whose first record has a list as its status, one whose current_date is
\* the empty string, and one whose current_date is a list.
WellFormed ==
  {PyDict(<< <<"homeworks", PyList(hs)>> >>) : hs \in HomeworkLists}
    \cup {PyDict(<< <<"homeworks", PyList(x[1])>>,
                    <<"current_date", PyInt(x[2])>> >>) :
            x \in {y \in HomeworkLists \X ServerDates :
                     y[2] = 1700000100 \/ y[1] \in {<<>>, <<Approved>>}}}
    \cup {PyDict(<< <<"homeworks", PyList(<<ListStatus>>)>>,
                    <<"current_date", PyInt(1700000100)>> >>),
          PyDict(<< <<"homeworks", PyList(<<>>)>>,
                    <<"current_date", PyStr("")>> >>),
          PyDict(<< <<"homeworks", PyList(<<>>)>>,
                    <<"current_date", PyList(<<PyInt(1), PyStr("a b")>>)>> >>)}

Malformed ==
  {PyList(<<>>), PyDict(EmptyItems),
   PyDict(<< <<"current_date", PyInt(1700000000)>> >>),
   PyDict(<< <<"homeworks", PyDict(EmptyItems)>>,
             <<"current_date", PyInt(1700000100)>> >>)}

Payloads == WellFormed \cup Malformed

HttpRaise(cls) == [kind |-> "raise", cls |-> cls, status_code |-> 0,
                   decodes |-> FALSE, json |-> PyNone]

HttpResponse(code, decodes, json) ==
  [kind |-> "response", cls |-> "none", status_code |-> code,
   decodes |-> decodes, json |-> json]

FailureCodes == {404, 503}

HttpOutcomes ==
  {HttpRaise(cls) : cls \in {"requests.ConnectionError", "requests.Timeout"}}
    \cup {HttpResponse(code, FALSE, PyNone) : code \in FailureCodes}
    \cup {HttpResponse(HTTP_OK, FALSE, PyNone)}
    \cup {HttpResponse(HTTP_OK, TRUE, p) : p \in Payloads}

(***************************************************************************)
(* The state of main(): the module's tokens, the wall clock, the position  *)
(* in the loop, main()'s locals, the frame of error_log_and_message while  *)
(* main() is in it (frame), and what the cycle under way (cyc) and the     *)
(* cycle before it (last) have done.                                       *)
(***************************************************************************)
VARIABLES tokens, now, pc, current_timestamp, cache_message, response,
          homeworks, message, error, frame, cyc, last

vars == <<tokens, now, pc, current_timestamp, cache_message, response,
          homeworks, message, error, frame, cyc, last>>

locals == <<response, homeworks, message, error>>

\* main() is not in error_log_and_message.
NoFrame == [site |-> "none", message |-> <<>>, cache_message |-> <<>>]

\* The record of a cycle that starts with the cursor ts0 and the cache cache0.
NewCycle(n, ts0, cache0) ==
  [n |-> n, ts0 |-> ts0, cache0 |-> cache0, branch |-> "none", diag |-> <<>>,
   notes |-> <<>>, logs |-> <<>>, sleeps |-> 0, fetches |-> 0, code |-> 0,
   from_date |-> PyNone, steps |-> <<>>, err |-> <<>>, srv |-> PyNone,
   seen |-> FALSE]

\* The branches of a cycle whose fetch and validation succeeded.
ValidatedBranches == {"empty", "status", "unknown_status"}

\* The record of the cycle that follows the finished cycle c: it carries on
\* the diagnostic of the most recent error cycle (err), whether a cycle has
\* fetched and validated (seen), and what the response of the most recent
\* such cycle gave as current_date (srv).
FollowingCycle(c, resp, ts0, cache0) ==
  [NewCycle(c.n + 1, ts0, cache0) EXCEPT
     !.err = IF c.diag # <<>> THEN c.diag ELSE c.err,
     !.seen = c.seen \/ c.branch \in ValidatedBranches,
     !.srv = IF c.branch \in ValidatedBranches THEN Get(resp, "current_date")
                                               ELSE c.srv]

\* What a later cycle needs of a finished one.
Summary(c) ==
  [n |-> c.n, branch |-> c.branch, diag |-> c.diag, sent |-> Len(c.notes),
   code |-> c.code, from_date |-> c.from_date, sleeps |-> c.sleeps,
   failed |-> \E i \in 1..Len(c.notes) : ~c.notes[i].delivered]

\* main() is entered: its locals are not bound yet.
Init ==
  /\ tokens \in Environments
  /\ now \in StartTimes
  /\ pc = "start"
  /\ current_timestamp = PyNone
  /\ cache_message = <<>>
  /\ response = PyNone
  /\ homeworks = PyNone
  /\ message = <<>>
  /\ error = NoError
  /\ frame = NoFrame
  /\ cyc = NewCycle(0, current_timestamp, cache_message)
  /\ last = Summary(cyc)

\* main() up to its loop: the bot, the first cursor, the empty cache.  When
\* the constructor of the bot raises, main() ends there.
Start ==
  /\ pc = "start"
  /\ \E bot \in telegram_Bot(tokens[2]) :
       IF bot.ok
         THEN /\ current_timestamp' = PyInt(now - LOOKBACK)
              /\ cache_message' = <<>>
              /\ error' = error
              /\ pc' = "guard"
         ELSE /\ error' = bot.error
              /\ pc' = "aborted"
              /\ UNCHANGED <<current_timestamp, cache_message>>
  /\ UNCHANGED <<tokens, now, response, homeworks, message, frame, cyc, last>>

\* while check_tokens(): the guard holds and a cycle starts.
LoopEnter ==
  /\ pc = "guard"
  /\ check_tokens(tokens)
  /\ cyc.n < MaxCycles
  /\ pc' = "fetch"
  /\ last' = Summary(cyc)
  /\ cyc' = FollowingCycle(cyc, response, current_timestamp, cache_message)
  /\ UNCHANGED <<tokens, now, current_timestamp, cache_message, locals, frame>>

\* while check_tokens(): a token is None, check_tokens logs and main() returns.
LoopExit ==
  /\ pc = "guard"
  /\ ~check_tokens(tokens)
  /\ pc' = "halted"
  /\ cyc' = [cyc EXCEPT !.logs = Append(@, <<"critical",
                 <<"Otsutstvuet peremennaya sredy. ", "Zapusk bota ne vozmozhen!">> >>)]
  /\ UNCHANGED <<tokens, now, current_timestamp, cache_message, locals, frame, last>>

\* response = get_api_answer(current_timestamp), and the except clause, with
\* requests.get doing one of `outcomes`.
GetApiAnswerFrom(outcomes) ==
  /\ pc = "fetch"
  /\ \E http \in outcomes :
       LET r == get_api_answer(current_timestamp, now, http)
           c == [cyc EXCEPT !.fetches = @ + 1,
                            !.code = http.status_code,
                            !.from_date = FromDate(current_timestamp, now),
                            !.steps = Append(@, "fetch")]
       IN IF r.ok
            THEN /\ response' = r.value
                 /\ error' = error
                 /\ pc' = "validate"
                 /\ cyc' = c
            ELSE /\ response' = response
                 /\ error' = r.error
                 /\ IF Catches({"ConnectionError"}, r.error)
                      THEN /\ pc' = "fetch_error"
                           /\ cyc' = [c EXCEPT !.branch = "transport"]
                      ELSE /\ pc' = "crashed"
                           /\ cyc' = [c EXCEPT !.branch = "crash"]
  /\ UNCHANGED <<tokens, now, current_timestamp, cache_message, homeworks,
                 message, frame, last>>

GetApiAnswer == GetApiAnswerFrom(HttpOutcomes)

\* As CheckResponse, had check_response taken the list out of the response
\* with response.pop('homeworks').
CheckResponsePop ==
  /\ pc = "validate"
  /\ LET r == check_response(response)
     IN IF r.ok
          THEN /\ homeworks' = r.value
               /\ response' = [t |-> "dict",
                                k |-> SelectSeq(response.k,
                                                LAMBDA key : key # "homeworks"),
                                v |-> [key \in DOMAIN response.v \ {"homeworks"}
                                        |-> response.v[key]]]
               /\ error' = error
               /\ pc' = "format"
               /\ cyc' = cyc
          ELSE /\ homeworks' = homeworks
               /\ response' = response
               /\ error' = r.error
               /\ pc' = "validate_error"
               /\ cyc' = [cyc EXCEPT !.branch = "malformed"]
  /\ UNCHANGED <<tokens, now, current_timestamp, cache_message, message, frame, last>>

\* homeworks = check_response(response), and the except clause.
CheckResponse ==
  /\ pc = "validate"
  /\ LET r == check_response(response)
     IN IF r.ok
          THEN /\ homeworks' = r.value
               /\ error' = error
               /\ pc' = "format"
               /\ cyc' = cyc
          ELSE /\ homeworks' = homeworks
               /\ error' = r.error
               /\ IF Catches({"KeyError", "TypeError", "DictIsEmptyError"}, r.error)
                    THEN /\ pc' = "validate_error"
                         /\ cyc' = [cyc EXCEPT !.branch = "malformed"]
                    ELSE /\ pc' = "crashed"
                         /\ cyc' = [cyc EXCEPT !.branch = "crash"]
  /\ UNCHANGED <<tokens, now, current_timestamp, cache_message, response,
                 message, frame, last>>

\* homeworks[0], the only record main() looks at.
LastHomework(hs) == hs.v[Len(hs.v)]

FirstHomework(hs) == hs.v[1]

\* if len(homeworks) > 0: message = parse_status(homeworks[0]), and the
\* except clause.
ParseStatus ==
  /\ pc = "format"
  /\ PyLen(homeworks) > 0
  /\ LET r == parse_status(FirstHomework(homeworks))
     IN IF r.ok
          THEN /\ message' = r.value
               /\ error' = error
               /\ pc' = "notify"
               /\ cyc' = [cyc EXCEPT !.branch = "status"]
          ELSE /\ message' = message
               /\ error' = r.error
               /\ IF Catches({"KeyError"}, r.error)
                    THEN /\ pc' = "format_error"
                         /\ cyc' = [cyc EXCEPT !.branch = "unknown_status"]
                    ELSE /\ pc' = "crashed"
                         /\ cyc' = [cyc EXCEPT !.branch = "crash"]
  /\ UNCHANGED <<tokens, now, current_timestamp, cache_message, response,
                 homeworks, frame, last>>

\* else: logging.debug(...): no homework in the answer.
NoNewStatus ==
  /\ pc = "format"
  /\ ~(PyLen(homeworks) > 0)
  /\ pc' = "advance"
  /\ cyc' = [cyc EXCEPT !.branch = "empty",
                        !.logs = Append(@, <<"debug", <<"Novye statusy otsutstvuyut">> >>)]
  /\ UNCHANGED <<tokens, now, current_timestamp, cache_message, locals, frame, last>>

\* send_message(bot, message) of the status message.
SendStatus ==
  /\ pc = "notify"
  /\ \E delivered \in BOOLEAN :
       LET sm == send_message("status", message, delivered)
       IN /\ cyc' = [cyc EXCEPT !.notes = Append(@, sm.note),
                                !.logs = Append(@, sm.log),
                                !.steps = Append(@, "notify")]
          /\ pc' = IF sm.escapes THEN "crashed" ELSE "advance"
  /\ UNCHANGED <<tokens, now, current_timestamp, cache_message, locals, frame, last>>

ErrorPcs == {"fetch_error", "validate_error", "format_error"}

AlwaysAdvance(at) == "advance"

BreakLoop(at) == "halted"

RetryFetch(at) == IF at = "format_error" THEN "advance" ELSE "fetch"

\* Where main() goes on after error_log_and_message returns: the handler of
\* parse_status falls through to the cursor assignment, the others end the
\* iteration.
AfterError(at) == IF at = "format_error" THEN "advance" ELSE "guard"

\* error_log_and_message(bot, error, cache_message) is called and runs up
\* to its time.sleep: the diagnostic is logged and, if new, sent, and the
\* callee's own cache_message is set.  main()'s cache_message, the clock and
\* the bound error are as before the call while the callee sleeps.
ErrorLogAndMessage ==
  /\ pc \in ErrorPcs
  /\ \E delivered \in BOOLEAN :
       \E r \in {error_log_and_message(error, cache_message, delivered)} :
          /\ (delivered \/ r.sends)
          /\ frame' = [site |-> pc, message |-> r.message,
                       cache_message |-> r.cache_message]
          /\ cyc' = [cyc EXCEPT !.diag = r.message,
                                !.notes = @ \o r.notes,
                                !.logs = @ \o r.logs,
                                !.steps = @ \o (IF r.sends THEN <<"notify">> ELSE <<>>)]
          /\ pc' = IF r.escapes THEN "crashed" ELSE "error_sleep"
  /\ UNCHANGED <<tokens, now, current_timestamp, cache_message, locals, last>>

\* time.sleep(RETRY_TIME) in error_log_and_message ends, the callee returns
\* its cache_message, main() assigns it and leaves the except clause, which
\* unbinds error.
ErrorLogAndMessageReturn ==
  /\ pc = "error_sleep"
  /\ now' = now + RETRY_TIME
  /\ cache_message' = frame.cache_message
  /\ error' = NoError
  /\ frame' = NoFrame
  /\ cyc' = [cyc EXCEPT !.sleeps = @ + 1, !.steps = Append(@, "sleep")]
  /\ pc' = AfterError(frame.site)
  /\ UNCHANGED <<tokens, current_timestamp, response, homeworks, message, last>>

\* The value line 139 assigns to the cursor.
StaleCursor(resp, current) == current

NextCursor(resp, current) == Get(resp, "current_date")

\* current_timestamp = response.get('current_date')
Advance ==
  /\ pc = "advance"
  /\ current_timestamp' = NextCursor(response, current_timestamp)
  /\ cyc' = [cyc EXCEPT !.steps = Append(@, "cursor")]
  /\ pc' = "sleep"
  /\ UNCHANGED <<tokens, now, cache_message, locals, frame, last>>

\* time.sleep(RETRY_TIME) at the end of the iteration.
Sleep ==
  /\ pc = "sleep"
  /\ now' = now + RETRY_TIME
  /\ cyc' = [cyc EXCEPT !.sleeps = @ + 1, !.steps = Append(@, "sleep")]
  /\ pc' = "guard"
  /\ UNCHANGED <<tokens, current_timestamp, cache_message, locals, frame, last>>

Next ==
  \/ Start
  \/ LoopEnter
  \/ LoopExit
  \/ GetApiAnswer
  \/ CheckResponse
  \/ ParseStatus
  \/ NoNewStatus
  \/ SendStatus
  \/ ErrorLogAndMessage
  \/ ErrorLogAndMessageReturn
  \/ Advance
  \/ Sleep

Spec == Init /\ [][Next]_vars

\* The answers that lead to no failure or to a failure main() handles: a
\* non-success status, each kind of malformed payload, an empty list, a
\* record of unknown status, a record of a known one.
HandledOutcomes ==
  {HttpResponse(code, FALSE, PyNone) : code \in FailureCodes}
    \cup {HttpResponse(HTTP_OK, TRUE, p) : p \in Malformed}
    \cup {HttpResponse(HTTP_OK, TRUE,
                       PyDict(<< <<"homeworks", PyList(<<>>)>>,
                                 <<"current_date", PyInt(1700000000)>> >>)),
          HttpResponse(HTTP_OK, TRUE,
                       PyDict(<< <<"homeworks", PyList(<<InReview>>)>>,
                                 <<"current_date", PyInt(1700000100)>> >>)),
          HttpResponse(HTTP_OK, TRUE,
                       PyDict(<< <<"homeworks", PyList(<<Approved>>)>> >>))}

PollGetApiAnswer == GetApiAnswerFrom(HandledOutcomes)

PollNext ==
  \/ Start
  \/ LoopEnter
  \/ LoopExit
  \/ PollGetApiAnswer
  \/ CheckResponse
  \/ ParseStatus
  \/ NoNewStatus
  \/ SendStatus
  \/ ErrorLogAndMessage
  \/ ErrorLogAndMessageReturn
  \/ Advance
  \/ Sleep

\* main() under handled failures only.  It runs in one thread that nothing
\* preempts: whenever a step of it can be taken, it is taken.
PollSpec == Init /\ [][PollNext]_vars /\ WF_vars(PollNext)

(***************************************************************************)
(* Properties.  A cycle is finished when main() is back at the loop guard: *)
(* cyc then records the finished cycle and last the one before it.         *)
(***************************************************************************)
Range(q) == {q[i] : i \in 1..Len(q)}

CycleDone == pc = "guard" /\ cyc.n > 0

ErrorBranches == {"transport", "malformed", "unknown_status"}

\* The finished cycle and the one before it both took the error path.
TwoErrorCycles ==
  /\ CycleDone
  /\ cyc.branch \in ErrorBranches
  /\ last.n > 0
  /\ last.branch \in ErrorBranches

\* The finished cycle fetched an answer that check_response accepts.
Validated ==
  /\ CycleDone
  /\ cyc.fetches = 1
  /\ cyc.code = HTTP_OK
  /\ check_response(response).ok

HasDate(resp) == resp.t = "dict" /\ "current_date" \in DOMAIN resp.v

\* C1, as stated: of two consecutive error cycles with the same diagnostic
\* exactly one send_message call is made over the two cycles, and with
\* differing diagnostics exactly two.
C1_DedupAcrossTwo ==
  TwoErrorCycles =>
    last.sent + Len(cyc.notes) = (IF cyc.diag = last.diag THEN 1 ELSE 2)

\* C1, amended: of two consecutive error cycles the second makes no
\* send_message call if its diagnostic equals the first's and exactly one,
\* carrying its diagnostic, if it differs; the counts over both cycles are
\* one and two whenever the first cycle sent its diagnostic.
C1_DedupSecondCycle ==
  TwoErrorCycles =>
    /\ Len(cyc.notes) = (IF cyc.diag = last.diag THEN 0 ELSE 1)
    /\ \A i \in 1..Len(cyc.notes) :
         cyc.notes[i].kind = "error" /\ cyc.notes[i].text = cyc.diag
    /\ cache_message = cyc.diag
    /\ last.sent = 1 =>
         last.sent + Len(cyc.notes) = (IF cyc.diag = last.diag THEN 1 ELSE 2)

\* C1 witness: a repeated diagnostic is suppressed in the second cycle after
\* the first one sent it.
C1_Witness ==
  /\ TwoErrorCycles
  /\ cyc.diag = last.diag
  /\ last.sent = 1
  /\ cyc.notes = <<>>

\* C2: from the moment a cycle takes the transport-error or the
\* malformed-response branch the cursor equals the cursor the cycle started
\* with, up to and including the end of the cycle.
C2_CursorFreeze ==
  cyc.branch \in {"transport", "malformed"} => current_timestamp = cyc.ts0

\* C2 witness: a cycle that failed validation has finished, after an earlier
\* cycle moved the cursor off its initial value.
C2_Witness ==
  /\ CycleDone
  /\ cyc.branch = "malformed"
  /\ cyc.sleeps = 1
  /\ last.branch \in {"empty", "status"}

\* C3, as stated: at the end of a cycle whose fetch and validation both
\* succeeded the cursor is the response's current_date if it has one, and
\* otherwise the cursor the cycle started with.
C3_CursorAdvance ==
  Validated =>
    current_timestamp = (IF HasDate(response) THEN response.v["current_date"]
                                              ELSE cyc.ts0)

\* C4, as stated: no error raised while fetching, validating or formatting
\* leaves main(); the loop ends only when a credential is absent.
C4_NothingPropagates ==
  /\ pc # "crashed"
  /\ pc = "halted" => ~check_tokens(tokens)

\* C5, as stated: when two consecutive cycles both fail with the same
\* non-success status code, the second cycle sends nothing, whatever the
\* cursor is.
C5_TransportDedup ==
  (/\ CycleDone
   /\ last.n > 0
   /\ last.branch = "transport"
   /\ cyc.branch = "transport"
   /\ cyc.code = last.code)
    => cyc.notes = <<>>

\* The status is a key of HOMEWORK_STATUSES.
InCatalog(status) == status.t = "str" /\ status.v \in DOMAIN HOMEWORK_STATUSES

\* C6, as stated: when fetch and validation succeeded and the first record's
\* status is no key of HOMEWORK_STATUSES, the cycle takes the error path; its
\* diagnostic contains the status text and is sent unless it equals the
\* cached one, no status message is sent, and the cursor is the response's
\* current_date.
C6_UnknownStatus ==
  /\ [][(/\ pc = "format"
         /\ PyLen(homeworks) > 0
         /\ homeworks.v[1].t = "dict"
         /\ ~InCatalog(Get(homeworks.v[1], "status")))
          => pc' = "format_error"]_vars
  /\ []((/\ Validated
         /\ PyLen(homeworks) > 0
         /\ homeworks.v[1].t = "dict"
         /\ ~InCatalog(Get(homeworks.v[1], "status")))
          => /\ cyc.branch = "unknown_status"
             /\ Format(Get(homeworks.v[1], "status")) \in Range(cyc.diag)
             /\ cache_message = cyc.diag
             /\ Len(cyc.notes) = (IF cyc.cache0 = cyc.diag THEN 0 ELSE 1)
             /\ \A i \in 1..Len(cyc.notes) :
                  cyc.notes[i].kind = "error" /\ cyc.notes[i].text = cyc.diag
             /\ HasDate(response) => current_timestamp = response.v["current_date"])

\* Every token is a non-empty string.
CredentialsUsable ==
  \A i \in 1..Len(tokens) : tokens[i] # PyNone /\ tokens[i] # PyStr("")

\* C7, as stated: a cycle runs only when all three credentials are present
\* and non-empty; otherwise main() halts, without raising, before any fetch
\* or notification and stays halted.
C7_CredentialGuard ==
  /\ cyc.n > 0 => CredentialsUsable
  /\ ~CredentialsUsable =>
       /\ pc \in {"start", "guard", "halted"}
       /\ cyc.fetches = 0
       /\ cyc.notes = <<>>

\* C8, as stated: every finished cycle has slept exactly once, so RETRY_TIME
\* lies between the start of its fetch and the next evaluation of the guard.
C8_OneSleepPerCycle ==
  CycleDone => cyc.sleeps = 1

\* C9: a cycle whose validated answer starts with a record of a known status
\* makes exactly one send_message call, a status message built from the
\* first record alone, leaves the cache as it was, and sets the cursor to
\* the response's current_date.
C9_SuccessfulCycle ==
  (/\ Validated
   /\ PyLen(homeworks) > 0
   /\ homeworks.v[1].t = "dict"
   /\ LET st == Get(homeworks.v[1], "status")
      IN st.t = "str" /\ st.v \in DOMAIN HOMEWORK_STATUSES)
    => /\ Len(cyc.notes) = 1
       /\ cyc.notes[1].kind = "status"
       /\ LET h == homeworks.v[1]
              text == cyc.notes[1].text
          IN /\ Get(h, "homework_name").v \in Range(text)
             /\ HOMEWORK_STATUSES[Get(h, "status").v] \in Range(text)
             /\ Format(Get(h, "reviewer_comment")) \in Range(text)
             /\ \A i \in 2..Len(homeworks.v) :
                  Get(homeworks.v[i], "homework_name").v \notin Range(text)
       /\ cyc.diag = <<>>
       /\ cache_message = cyc.cache0
       /\ HasDate(response) => current_timestamp = response.v["current_date"]

\* C9 witness: a list of two records produced one status message about the
\* first, with the cursor moved and an earlier diagnostic still cached.
C9_Witness ==
  /\ Validated
  /\ cyc.branch = "status"
  /\ Len(homeworks.v) = 2
  /\ Len(cyc.notes) = 1
  /\ "diplom2" \in Range(cyc.notes[1].text)
  /\ cache_message # <<>>
  /\ HasDate(response)
  /\ current_timestamp # cyc.ts0

\* C10: a cycle whose validated answer has an empty homeworks list sends
\* nothing, logs at debug level, leaves the cache as it was, and sets the
\* cursor to the response's current_date.
C10_EmptyList ==
  (Validated /\ PyLen(homeworks) = 0)
    => /\ cyc.notes = <<>>
       /\ cyc.diag = <<>>
       /\ \E i \in 1..Len(cyc.logs) : cyc.logs[i][1] = "debug"
       /\ cache_message = cyc.cache0
       /\ HasDate(response) => current_timestamp = response.v["current_date"]

\* C10 witness: an empty list ended a cycle that moved the cursor and kept a
\* cached diagnostic.
C10_Witness ==
  /\ Validated
  /\ PyLen(homeworks) = 0
  /\ cache_message # <<>>
  /\ HasDate(response)
  /\ current_timestamp = PyInt(1700000000)
  /\ cyc.ts0 # current_timestamp

\* C11: a step that calls send_message never ends main(), and where main()
\* goes on, the cursor, the cache and the cache_message that
\* error_log_and_message holds to return are fixed by the state before the
\* call alone, whether the delivery succeeds or fails; the return from
\* error_log_and_message hands that cache_message to main() and goes on by
\* the except clause it was called from; and a cycle that has called
\* send_message and is back at the loop guard has its diagnostic as the
\* cache, or the cache it started with after a status message, delivered or
\* not.
C11_BestEffort ==
  /\ [][Len(cyc'.notes) > Len(cyc.notes) =>
          /\ pc' # "crashed"
          /\ pc' = (IF pc = "notify" THEN "advance" ELSE "error_sleep")
          /\ current_timestamp' = current_timestamp
          /\ cache_message' = cache_message
          /\ frame' = (IF pc = "notify" THEN frame
                       ELSE [site |-> pc, message |-> Diagnostic(error),
                             cache_message |-> Diagnostic(error)])]_vars
  /\ [][pc = "error_sleep" =>
          /\ pc' = (IF frame.site = "format_error" THEN "advance" ELSE "guard")
          /\ cache_message' = frame.cache_message
          /\ current_timestamp' = current_timestamp]_vars
  /\ []((CycleDone /\ cyc.notes # <<>>) =>
          cache_message = (IF cyc.notes[1].kind = "error" THEN cyc.notes[1].text
                                                          ELSE cyc.cache0))

\* C11 witness: a cycle whose status message failed to be delivered has
\* finished with the cursor moved, and the one before it finished too.
C11_Witness ==
  /\ CycleDone
  /\ cyc.n = 2
  /\ Len(cyc.notes) = 1
  /\ cyc.notes[1].kind = "status"
  /\ ~cyc.notes[1].delivered
  /\ current_timestamp # cyc.ts0

\* The kind of malformed response the validator's contract gives a payload,
\* or "ok".
ExpectedKind(resp) ==
  IF resp.t # "dict" THEN "NotAMapping"
  ELSE IF DOMAIN resp.v = {} THEN "EmptyMapping"
  ELSE IF "homeworks" \notin DOMAIN resp.v THEN "MissingKey"
  ELSE IF resp.v["homeworks"].t # "list" THEN "NotASequence"
  ELSE "ok"

\* The kind an exception of check_response stands for.
ErrorKind(e) ==
  CASE e.cls = "TypeError" /\ TypeRepr(response) \in Range(e.msg) -> "NotAMapping"
    [] e.cls = "DictIsEmptyError" -> "EmptyMapping"
    [] e.cls = "KeyError" /\ e.msg = <<"Klyucha homeworks net v otvete API">>
         -> "MissingKey"
    [] e.cls = "TypeError" /\ e.msg = <<"homeworks ne yavlyaetsya spiskom">>
         -> "NotASequence"
    [] OTHER -> "other"

\* C12: check_response fails with the first kind that applies, in the order
\* NotAMapping, EmptyMapping, MissingKey, NotASequence, and otherwise hands
\* back the homeworks value as it is, whatever the records in it are.
C12_ValidatorClassification ==
  /\ pc = "validate_error" =>
       /\ ExpectedKind(response) # "ok"
       /\ ErrorKind(error) = ExpectedKind(response)
  /\ pc = "format" =>
       /\ ExpectedKind(response) = "ok"
       /\ homeworks = response.v["homeworks"]
  /\ (cyc.branch = "crash" /\ cyc.code = HTTP_OK /\ error.cls # "requests.JSONDecodeError")
       => ExpectedKind(response) = "ok"

\* C12 witness: after a cycle that failed validation, a list whose only
\* record is no mapping passed check_response unchanged.
C12_Witness ==
  /\ pc = "format"
  /\ last.branch = "malformed"
  /\ homeworks = PyList(<<NotAMapping>>)

\* No token is None.
TokensPresent == \A i \in 1..Len(tokens) : tokens[i] # PyNone

\* The constructor of the bot takes the messaging token.
BotAccepted == telegram_Bot(tokens[2]) = {Return(PyNone)}

\* The polling went on to the bound of the model.
RanAllCycles == pc = "guard" /\ cyc.n = MaxCycles /\ cyc.sleeps >= 1

\* C13: with all tokens present and only handled failures (the bot is
\* constructed, and every answer is one main() handles), main() never leaves
\* the loop and never crashes, and it gets through cycle after cycle, each
\* reaching its sleep and each followed by the next fetch, up to the
\* MaxCycles cycles the model runs, however many of them fail.
C13_UnboundedPolling ==
  /\ []((TokensPresent /\ BotAccepted) => pc \notin {"halted", "crashed", "aborted"})
  /\ (TokensPresent /\ BotAccepted) => <>RanAllCycles

\* C13 witness: MaxCycles cycles in a row failed, each on the error path,
\* and each was followed by the next fetch.
C13_Witness ==
  /\ CycleDone
  /\ cyc.n = MaxCycles
  /\ cyc.branch \in ErrorBranches
  /\ last.branch \in ErrorBranches
  /\ cyc.fetches = 1

\* C14: the call of check_response changes neither the response nor the
\* cursor nor the cache, and check_response applied again to the response
\* as it is after the call gives the sequence the call returned.
C14_ValidationPure ==
  [][pc = "validate" =>
       /\ response' = response
       /\ current_timestamp' = current_timestamp
       /\ cache_message' = cache_message
       /\ pc' = "format" =>
            /\ check_response(response').ok
            /\ check_response(response').value = homeworks']_vars

\* C14 witness: a well-formed response of two records has been validated
\* while a diagnostic was cached.
C14_Witness ==
  /\ pc = "format"
  /\ homeworks = PyList(<<Rejected, InReview>>)
  /\ response.v["homeworks"] = homeworks
  /\ cache_message # <<>>

\* The diagnostic of the most recent cycle that took the error path, the
\* cycle under way included; the empty text if there was none.
RecentError == IF cyc.diag # <<>> THEN cyc.diag ELSE cyc.err

\* C15: but for the time error_log_and_message sleeps, the cache holds the
\* diagnostic of the most recent error cycle, or the empty text if there
\* was none, so it does at the start of every cycle; while it sleeps, the
\* cache is that of the error cycle before and error_log_and_message holds
\* the diagnostic to return; a cycle off the error path leaves the cache as
\* it was; an error
\* cycle sends nothing if its diagnostic is that of the most recent error
\* cycle, however many successful cycles lie between, and one message
\* otherwise, as the first error cycle after startup always does.
C15_CacheInvariant ==
  /\ pc # "error_sleep" => cache_message = RecentError
  /\ pc = "error_sleep" =>
       /\ cache_message = cyc.err
       /\ frame.cache_message = cyc.diag
  /\ pc = "fetch" => cache_message = cyc.err
  /\ (CycleDone /\ cyc.branch \notin ErrorBranches) => cache_message = cyc.cache0
  /\ (CycleDone /\ cyc.branch \in ErrorBranches) =>
       /\ cyc.diag # <<>>
       /\ Len(cyc.notes) = (IF cyc.diag = cyc.err THEN 0 ELSE 1)
       /\ cyc.err = <<>> => Len(cyc.notes) = 1

\* C15 witness: an error, a successful cycle, and the same error again,
\* which is not sent a second time.
C15_Witness ==
  /\ CycleDone
  /\ cyc.n = 3
  /\ cyc.branch \in ErrorBranches
  /\ last.branch \in {"empty", "status"}
  /\ cyc.diag = cyc.err
  /\ cyc.notes = <<>>

\* C16: once send_message has failed to deliver an error diagnostic,
\* error_log_and_message holds that diagnostic as its cache_message all the
\* same, and after its return so does main(); an error cycle that follows
\* with the identical diagnostic makes no send_message call, so the text is
\* not delivered as long as it stays the same.
C16_FailedDeliveryCached ==
  /\ (\E i \in 1..Len(cyc.notes) :
        cyc.notes[i].kind = "error" /\ ~cyc.notes[i].delivered)
       => /\ pc # "crashed"
          /\ pc = "error_sleep" => frame.cache_message = cyc.diag
          /\ pc # "error_sleep" => cache_message = cyc.diag
  /\ (TwoErrorCycles /\ last.failed /\ cyc.diag = last.diag)
       => (cyc.notes = <<>> /\ cache_message = last.diag)

\* C16 witness: the diagnostic failed to be delivered in one cycle and the
\* same error in the next cycle was not sent.
C16_Witness ==
  /\ TwoErrorCycles
  /\ last.failed
  /\ last.sent = 1
  /\ cyc.diag = last.diag
  /\ cyc.notes = <<>>

\* Where step x stands in the steps of a cycle.
Positions(q, x) == {i \in 1..Len(q) : q[i] = x}

\* C17: a cycle fetches once, first of all, and calls send_message at most
\* once (a status message or a diagnostic); the call comes after the fetch
\* and before the cycle's cursor assignment and every sleep of the cycle;
\* the cycle ends with a sleep, and the next cycle's fetch starts only from
\* the loop guard after it.
C17_Sequencing ==
  /\ cyc.fetches = Cardinality(Positions(cyc.steps, "fetch"))
  /\ Len(cyc.notes) = Cardinality(Positions(cyc.steps, "notify"))
  /\ cyc.fetches <= 1
  /\ Len(cyc.notes) <= 1
  /\ cyc.steps # <<>> => cyc.steps[1] = "fetch"
  /\ \A i \in Positions(cyc.steps, "notify") :
       \A j \in Positions(cyc.steps, "cursor") \cup Positions(cyc.steps, "sleep") :
         i < j
  /\ Cardinality(Positions(cyc.steps, "cursor")) <= 1
  /\ CycleDone =>
       /\ cyc.fetches = 1
       /\ cyc.steps[Len(cyc.steps)] = "sleep"
  /\ pc = "fetch" =>
       /\ cyc.steps = <<>>
       /\ last.n > 0 => last.sleeps >= 1

\* C17 witness: the second cycle fetched, sent one status message, set the
\* cursor and slept, in that order.
C17_Witness ==
  /\ CycleDone
  /\ cyc.n = 2
  /\ cyc.steps = <<"fetch", "notify", "cursor", "sleep">>
  /\ cyc.notes[1].kind = "status"

\* C18, as stated: once a cycle has fetched and validated, every later fetch
\* asks for from_date equal to the current_date of the response of the most
\* recent such cycle, never for the wall clock.
C18_ServerDrivenWindow ==
  (cyc.fetches = 1 /\ cyc.seen) => cyc.from_date = cyc.srv

====
